---- MODULE Spec2Model ----
(***************************************************************************)
(* A model of the Mimir forensic shell: the history file manager           *)
(* (cli/history.py), the case manager (cli/case.py), the command handler   *)
(* (cli/handler.py) and the read-record-dispatch loop (cli/shell.py).      *)
(*                                                                         *)
(* Text is a sequence of atoms.  An atom is either a word (a run of        *)
(* ordinary characters such as "case" or "c1") or one special character    *)
(* (" ", "\n", "|", "#", "+", ":", the double quote, ".").  Every string   *)
(* operation of the source is modelled on that representation.             *)
(***************************************************************************)
EXTENDS Integers, Sequences, FiniteSets, TLC

VARIABLES
    history_file,   \* HistoryManager.history_file: the lines of the file
    max_entries,    \* HistoryManager.max_entries
    clock,          \* the wall clock read by datetime.now()/utcnow()
    appended,       \* ghost: the entries save_history wrote, in order
    rows,           \* the last parse_history call since the last append
    hstat,          \* the outcome of the last save_history call
    ncalls,         \* ghost: the number of save_history / case API calls made
    dirs,           \* the names of the directories under Investigations/
    files,          \* the names of the other entries (plain files) under Investigations/
    meta,           \* name -> the content of <name>/case.json
    cm_case,        \* CaseManager.current_case
    cm_path,        \* CaseManager.current_case_path
    cwd,            \* the working directory of the process
    last_case,      \* the content of the .last_case file
    chdir_on_open,  \* CaseManager.chdir_on_open
    user,           \* getpass.getuser()
    last,           \* ghost: the last case operation, its result, what it raised
    prev,           \* ghost: the case operation before the last one
    given,          \* ghost: name -> the add_evidence calls that succeeded since a fresh create
    loop,           \* where mimir() is: Idle, Recording, Dispatching, Stopped, Died
    raw,            \* mimir(): the stripped input line
    parts,          \* mimir(): the tokens of the line
    current_case,   \* mimir(): its own current_case variable
    did,            \* ghost: what the dispatch of the last line did
    fs              \* the file operation in progress, step by step

hvars == <<history_file, max_entries, clock, appended, rows, hstat, ncalls>>
cvars == <<dirs, files, meta, cm_case, cm_path, cwd, last_case, chdir_on_open, user,
           last, prev, given>>
svars == <<loop, raw, parts, current_case, did, fs>>
vars == <<hvars, cvars, svars>>

(***************************************************************************)
(* Bounds of the model.                                                    *)
(***************************************************************************)
MaxN == 2
MaxAppends == 3
MaxOps == 3
MaxLines == 2
MaxFileLines == 3
DefaultMaxEntries == 200

(***************************************************************************)
(* Python values: None and str.                                            *)
(***************************************************************************)
NoneV == [kind |-> "none"]
Str(v) == [kind |-> "str", v |-> v]
Truthy(x) == x.kind # "none" /\ x.v # <<>>

(***************************************************************************)
(* String operations.                                                      *)
(***************************************************************************)
WS == {" ", "\n"}

Contains(s, a) == \E i \in 1..Len(s) : s[i] = a

RECURSIVE lstrip(_)
lstrip(s) == IF s # <<>> /\ Head(s) \in WS THEN lstrip(Tail(s)) ELSE s

RECURSIVE rstrip(_)
rstrip(s) ==
    IF s # <<>> /\ s[Len(s)] \in WS THEN rstrip(SubSeq(s, 1, Len(s) - 1)) ELSE s

strip(s) == rstrip(lstrip(s))

isspace(s) == s # <<>> /\ \A i \in 1..Len(s) : s[i] \in WS

startswith(s, prefixes) == s # <<>> /\ s[1] \in prefixes

RECURSIVE split(_, _)
split(s, sep) ==
    IF ~Contains(s, sep) THEN <<s>>
    ELSE LET i == CHOOSE k \in 1..Len(s) :
                      s[k] = sep /\ \A j \in 1..(k - 1) : s[j] # sep
         IN  <<SubSeq(s, 1, i - 1)>> \o split(SubSeq(s, i + 1, Len(s)), sep)

\* datetime.now().strftime(...): the text of a clock reading
strftime(t) == <<ToString(t)>>

\* Python's xs[-n:] for n >= 0 (xs[-0:] is xs[0:], the whole list)
LastN(xs, n) ==
    IF n = 0 \/ n >= Len(xs) THEN xs ELSE SubSeq(xs, Len(xs) - n + 1, Len(xs))

RECURSIVE Reverse(_)
Reverse(xs) == IF xs = <<>> THEN <<>> ELSE Reverse(Tail(xs)) \o <<Head(xs)>>

\* the characters a case name must not contain (handler.py, CommandHandler.case)
Reserved == {"<", ">", ":", "\"", "/", "\\", "|", "?", "*"}

(***************************************************************************)
(* HistoryManager                                                          *)
(***************************************************************************)
\* a mutant of _serialize_line that always writes the case field
serialize_always_case(cmd, ts, case) ==
    cmd \o <<"|">> \o ts \o <<"|">> \o (IF case.kind = "none" THEN <<>> ELSE case.v)

_serialize_line(cmd, ts, case) ==
    IF Truthy(case) THEN cmd \o <<"|">> \o ts \o <<"|">> \o case.v
    ELSE cmd \o <<"|">> \o ts

NoRec == [ok |-> FALSE]

_parse_line(line) ==
    LET fields == split(line, "|") IN
    IF Len(fields) < 2 THEN NoRec
    ELSE LET cmd  == strip(fields[1])
             ts   == strip(fields[2])
             case == IF Len(fields) >= 3 THEN strip(fields[3]) ELSE <<>>
         IN  IF cmd = <<>> \/ ts = <<>> THEN NoRec
             ELSE [ok |-> TRUE, cmd |-> cmd, ts |-> ts, case |-> case]

Entry(cmd, ts, case) == [ok |-> TRUE, cmd |-> cmd, ts |-> ts, case |-> case]

\* a mutant of parse_items that stops reading at the first line that does
\* not parse
RECURSIVE parse_items_abort(_)
parse_items_abort(f) ==
    IF f = <<>> THEN <<>>
    ELSE LET line == strip(Head(f)) IN
         IF line = <<>> \/ startswith(line, {"#", "+"}) THEN parse_items_abort(Tail(f))
         ELSE LET rec == _parse_line(line) IN
              IF rec.ok THEN <<rec>> \o parse_items_abort(Tail(f))
              ELSE <<>>

RECURSIVE parse_items(_)
parse_items(f) ==
    IF f = <<>> THEN <<>>
    ELSE LET line == strip(Head(f)) IN
         IF line = <<>> \/ startswith(line, {"#", "+"}) THEN parse_items(Tail(f))
         ELSE LET rec == _parse_line(line) IN
              IF rec.ok THEN <<rec>> \o parse_items(Tail(f))
              ELSE parse_items(Tail(f))

\* limit is None or an int; `limit or len(items)` takes len(items) for None and 0
parse_history(f, limit) ==
    LET items == parse_items(f)
        n == IF limit.kind = "none" \/ limit.v = 0 THEN Len(items) ELSE limit.v
    IN  Reverse(LastN(items, n))

IntV(n) == [kind |-> "int", v |-> n]

\* s[:k]
Prefix(s, k) == SubSeq(s, 1, IF k <= Len(s) THEN k ELSE Len(s))
\* max(...) over a non-empty set of lengths
MaxOf(S) == CHOOSE m \in S : \A x \in S : x <= m
\* the widest command and case columns display_history prints
MaxCmdWidth == 120
MaxCaseWidth == 40

\* what display_history prints when there is nothing to show
NoTable == [shown |-> FALSE]

\* a mutant of display_history that decides on the Case column from the whole
\* file, not from the rows it shows
display_history_case_of_file(f, limit) ==
    LET found == parse_history(f, limit)
        every == parse_history(f, NoneV)
        has_case == \E i \in 1..Len(every) : every[i].case # <<>>
    IN  IF found = <<>> THEN NoTable
        ELSE [shown |-> TRUE,
              header |-> IF has_case THEN <<"Num", "Command", "Case", "Timestamp">>
                         ELSE <<"Num", "Command", "Timestamp">>,
              lines |-> [idx \in 1..Len(found) |->
                            IF has_case
                            THEN [num |-> idx, cmd |-> found[idx].cmd,
                                  case |-> found[idx].case, ts |-> found[idx].ts]
                            ELSE [num |-> idx, cmd |-> found[idx].cmd,
                                  ts |-> found[idx].ts]]]

\* display_history(limit): the header and the printed lines, as the values
\* of their columns
display_history(f, limit) ==
    LET found == parse_history(f, limit) IN
    IF found = <<>> THEN NoTable
    ELSE LET max_cmd == LET w == MaxOf({ Len(found[i].cmd) : i \in 1..Len(found) })
                        IN  IF w <= MaxCmdWidth THEN w ELSE MaxCmdWidth
             max_case == LET w == MaxOf({ Len(found[i].case) : i \in 1..Len(found) })
                         IN  IF w <= MaxCaseWidth THEN w ELSE MaxCaseWidth
             has_case == \E i \in 1..Len(found) : found[i].case # <<>>
         IN  [shown |-> TRUE,
              header |-> IF has_case THEN <<"Num", "Command", "Case", "Timestamp">>
                         ELSE <<"Num", "Command", "Timestamp">>,
              lines |-> [idx \in 1..Len(found) |->
                            IF has_case
                            THEN [num |-> idx, cmd |-> Prefix(found[idx].cmd, max_cmd),
                                  case |-> Prefix(found[idx].case, max_case),
                                  ts |-> found[idx].ts]
                            ELSE [num |-> idx, cmd |-> Prefix(found[idx].cmd, max_cmd),
                                  ts |-> found[idx].ts]]]

NonBlank(f) == SelectSeq(f, LAMBDA ln : strip(ln) # <<>>)

\* The rotation step of save_history.  io is what the file system does:
\*   "ok"            temp file written and renamed over the history file
\*   "fallback"      temp write or rename raised, the direct rewrite succeeded
\*   "fallback_fail" the direct rewrite raised after truncating the file
\*   "read_fail"     reading the file back raised: no rotation
rotate(f, maxn, io) ==
    LET lines == NonBlank(f) IN
    IF io = "read_fail" THEN f
    ELSE IF Len(lines) > maxn THEN
        LET keep == LastN(lines, maxn) IN
        IF io = "fallback_fail" THEN <<>> ELSE keep
    ELSE f

\* a mutant of rotate that keeps the oldest entries
rotate_keep_oldest(f, maxn, io) ==
    LET lines == NonBlank(f) IN
    IF io = "read_fail" THEN f
    ELSE IF Len(lines) > maxn THEN
        IF io = "fallback_fail" THEN <<>> ELSE SubSeq(lines, 1, maxn)
    ELSE f

\* save_history(command, case): the new file and the outcome of the call
save_history(f, maxn, command, case, ts, ioA, ioR) ==
    IF command = <<>> \/ isspace(command) THEN [file |-> f, stat |-> "skipped"]
    ELSE LET c == strip(command) IN
         IF Contains(c, "|") \/ Contains(c, "\n")
         THEN [file |-> f, stat |-> "rejected"]
         ELSE IF ioA = "fail" THEN [file |-> f, stat |-> "ioerror"]
         ELSE [file |-> rotate(Append(f, _serialize_line(c, ts, case)), maxn, ioR),
               stat |-> "ok"]


(***************************************************************************)
(* CaseManager                                                             *)
(***************************************************************************)
\* A path is a sequence of components; an absolute path starts with "/".
StartDir == << <<"/">>, <<"home">> >>
base_path == << <<"/">>, <<"Mimir">> >>
investigations_path == base_path \o << <<"Investigations">> >>
CasePath(name) == investigations_path \o <<name>>
isabs(p) == p # <<>> /\ p[1] = <<"/">>
abspath(p, wd) == IF isabs(p) THEN p ELSE wd \o p

\* The case names of the model, in the order sorted() gives them.
SortedNames == << <<"a", ":", "b">>, <<"c1">>, <<"c2">> >>
CaseNames == { SortedNames[i] : i \in 1..Len(SortedNames) }
\* A plain file in the investigations directory, and every entry name of the
\* model in the order sorted() gives them.
StrayFile == <<"readme">>
SortedEntries == SortedNames \o <<StrayFile>>

Missing == [kind |-> "missing"]     \* no case.json
Corrupt == [kind |-> "corrupt"]     \* a case.json that is not a JSON document
Doc(name, created, updated, examiner, evidence, notes) ==
    [kind |-> "doc", name |-> name, created |-> created, updated |-> updated,
     examiner |-> examiner, evidence |-> evidence, notes |-> notes]

ListV(xs) == [kind |-> "list", v |-> xs]
DictV(d) == [kind |-> "dict", v |-> d]
\* Python truth of a returned value
PyTruthy(x) ==
    CASE x.kind = "none" -> FALSE
      [] x.kind = "dict" -> TRUE
      [] OTHER -> x.v # <<>>

\* The case store as one value, and an operation's outcome.
CS == [dirs |-> dirs, files |-> files, meta |-> meta, cur |-> cm_case, path |-> cm_path,
       cwd |-> cwd, lastc |-> last_case]
Ret(cs, result) == [cs |-> cs, result |-> result, raised |-> FALSE]
Raise(cs) == [cs |-> cs, result |-> NoneV, raised |-> TRUE]

MetaOf(cs, name) == IF name \in DOMAIN cs.meta THEN cs.meta[name] ELSE Missing

_persist_last_case(cs, name) == [cs EXCEPT !.lastc = name]

\* a mutant of Activate that never changes the working directory
Activate_no_chdir(cs, name, follow) ==
    _persist_last_case([cs EXCEPT !.cur = Str(name), !.path = Str(CasePath(name))],
                       name)

Activate(cs, name, follow) ==
    _persist_last_case(
        [cs EXCEPT !.cur = Str(name), !.path = Str(CasePath(name)),
                   !.cwd = IF follow THEN CasePath(name) ELSE @],
        name)

\* _write_metadata opens case.json for writing (which truncates it) and dumps
\* the document.  io: "ok", "open_fail" (open raised), "write_fail" (dump raised)
_write_metadata(cs, name, doc, io) ==
    CASE io = "ok" -> Ret([cs EXCEPT !.meta[name] = doc], NoneV)
      [] io = "open_fail" -> Raise(cs)
      [] OTHER -> Raise([cs EXCEPT !.meta[name] = Corrupt])

\* a mutant of create_case that never writes the initial metadata document
create_case_no_metadata(cs, case_name, t1, t2, io, follow, who) ==
    IF ~Truthy(case_name) THEN Ret(cs, NoneV)
    ELSE LET name == case_name.v IN
         IF name \in cs.dirs THEN Ret(Activate(cs, name, follow), Str(name))
         ELSE IF io = "mkdir_fail" THEN Raise(cs)
         ELSE Ret(Activate([cs EXCEPT !.dirs = @ \cup {name}], name, follow),
                  Str(name))

\* a mutant of create_case that writes a fresh document also when the
\* directory exists already
create_case_reinit(cs, case_name, t1, t2, io, follow, who) ==
    IF ~Truthy(case_name) THEN Ret(cs, NoneV)
    ELSE LET name == case_name.v IN
         IF name \notin cs.dirs /\ io = "mkdir_fail" THEN Raise(cs)
         ELSE LET made == [cs EXCEPT !.dirs = @ \cup {name}]
                  w == _write_metadata(made, name,
                                       Doc(name, t1, t2, who, <<>>, <<>>), io)
              IN  IF w.raised THEN w
                  ELSE Ret(Activate(w.cs, name, follow), Str(name))

create_case(cs, case_name, t1, t2, io, follow, who) ==
    IF ~Truthy(case_name) THEN Ret(cs, NoneV)
    ELSE LET name == case_name.v IN
         IF name \in cs.dirs THEN Ret(Activate(cs, name, follow), Str(name))
         ELSE IF io = "mkdir_fail" THEN Raise(cs)
         ELSE LET made == [cs EXCEPT !.dirs = @ \cup {name}]
                  w == _write_metadata(made, name,
                                       Doc(name, t1, t2, who, <<>>, <<>>), io)
              IN  IF w.raised THEN w
                  ELSE Ret(Activate(w.cs, name, follow), Str(name))

\* a mutant of open_case that asks for the directory, not for case.json
open_case_dir_exists(cs, case_name, follow) ==
    IF ~Truthy(case_name) THEN Ret(cs, NoneV)
    ELSE LET name == case_name.v IN
         IF name \notin cs.dirs THEN Ret(cs, NoneV)
         ELSE Ret(Activate(cs, name, follow), Str(name))

open_case(cs, case_name, follow) ==
    IF ~Truthy(case_name) THEN Ret(cs, NoneV)
    ELSE LET name == case_name.v IN
         IF MetaOf(cs, name).kind = "missing" THEN Ret(cs, NoneV)
         ELSE Ret(Activate(cs, name, follow), Str(name))

\* a mutant of close_case that keeps the path of the closed case
close_case_keep_path(cs, follow) ==
    IF ~Truthy(cs.cur) THEN Ret(cs, NoneV)
    ELSE Ret([_persist_last_case(cs, <<>>) EXCEPT
                  !.cur = NoneV,
                  !.cwd = IF follow THEN base_path ELSE @],
             NoneV)

close_case(cs, follow) ==
    IF ~Truthy(cs.cur) THEN Ret(cs, NoneV)
    ELSE Ret([_persist_last_case(cs, <<>>) EXCEPT
                  !.cur = NoneV, !.path = NoneV,
                  !.cwd = IF follow THEN base_path ELSE @],
             NoneV)

\* a mutant of list_cases that lists every entry, directory or not
list_cases_all_entries(cs) ==
    Ret(cs, ListV(SelectSeq(SortedEntries, LAMBDA n : n \in cs.dirs \cup cs.files)))

\* sorted(d for d in os.listdir(investigations_path) if os.path.isdir(d))
list_cases(cs) ==
    Ret(cs, ListV(SelectSeq(SortedEntries,
                            LAMBDA n : n \in cs.dirs \cup cs.files /\ n \in cs.dirs)))

\* a mutant of case_info that does not fall back on the active case
case_info_named_only(cs, case_name) ==
    IF ~Truthy(case_name) THEN Ret(cs, NoneV)
    ELSE LET m == MetaOf(cs, case_name.v)
         IN  CASE m.kind = "missing" -> Ret(cs, NoneV)
               [] m.kind = "corrupt" -> Raise(cs)
               [] OTHER -> Ret(cs, DictV(m))

case_info(cs, case_name) ==
    IF ~Truthy(case_name) /\ ~Truthy(cs.cur) THEN Ret(cs, NoneV)
    ELSE LET name == IF Truthy(case_name) THEN case_name.v ELSE cs.cur.v
             m == MetaOf(cs, name)
         IN  CASE m.kind = "missing" -> Ret(cs, NoneV)
               [] m.kind = "corrupt" -> Raise(cs)
               [] OTHER -> Ret(cs, DictV(m))

EvidenceEntry(file, description, added) ==
    [file |-> file, description |-> description, added |-> added]

\* a mutant of add_evidence that stores the path as given and puts the new
\* entry first
add_evidence_prepend(cs, file_path, description, t1, t2, io) ==
    IF ~Truthy(cs.path) THEN Ret(cs, NoneV)
    ELSE LET name == cs.path.v[Len(cs.path.v)]
             m == MetaOf(cs, name)
         IN  CASE m.kind = "missing" -> Ret(cs, NoneV)
               [] m.kind = "corrupt" -> Raise(cs)
               [] OTHER ->
                    _write_metadata(cs, name,
                        [m EXCEPT !.evidence =
                                    <<EvidenceEntry(file_path, description, t1)>> \o @,
                                  !.updated = t2],
                        io)

\* a mutant of add_evidence that starts a document when there is none
add_evidence_creates_missing(cs, file_path, description, t1, t2, io) ==
    IF ~Truthy(cs.path) THEN Ret(cs, NoneV)
    ELSE LET name == cs.path.v[Len(cs.path.v)]
             m == MetaOf(cs, name)
             entry == EvidenceEntry(abspath(file_path, cs.cwd), description, t1)
         IN  CASE m.kind = "missing" ->
                    _write_metadata(cs, name, Doc(name, t1, t2, "", <<entry>>, <<>>), io)
               [] m.kind = "corrupt" -> Raise(cs)
               [] OTHER ->
                    _write_metadata(cs, name,
                        [m EXCEPT !.evidence = Append(@, entry), !.updated = t2], io)

\* a mutant of add_evidence that also files the description as a note
add_evidence_with_note(cs, file_path, description, t1, t2, io) ==
    IF ~Truthy(cs.path) THEN Ret(cs, NoneV)
    ELSE LET name == cs.path.v[Len(cs.path.v)]
             m == MetaOf(cs, name)
         IN  CASE m.kind = "missing" -> Ret(cs, NoneV)
               [] m.kind = "corrupt" -> Raise(cs)
               [] OTHER ->
                    _write_metadata(cs, name,
                        [m EXCEPT !.evidence =
                                    Append(@, EvidenceEntry(abspath(file_path, cs.cwd),
                                                            description, t1)),
                                  !.notes = Append(@, description),
                                  !.updated = t2],
                        io)

add_evidence(cs, file_path, description, t1, t2, io) ==
    IF ~Truthy(cs.path) THEN Ret(cs, NoneV)
    ELSE LET name == cs.path.v[Len(cs.path.v)]
             m == MetaOf(cs, name)
         IN  CASE m.kind = "missing" -> Ret(cs, NoneV)
               [] m.kind = "corrupt" -> Raise(cs)
               [] OTHER ->
                    _write_metadata(cs, name,
                        [m EXCEPT !.evidence =
                                    Append(@, EvidenceEntry(abspath(file_path, cs.cwd),
                                                            description, t1)),
                                  !.updated = t2],
                        io)

\* What an operation reads from its environment: two clock readings, the
\* outcome of its file-system calls, the configuration and the OS user.
Env(t1, t2, io) == [t1 |-> t1, t2 |-> t2, io |-> io,
                    follow |-> chdir_on_open, who |-> user]

\* a mutant of handle that raises on an action it does not know
handle_unknown_raises(cs, case_name, action, e) ==
    CASE action = <<"create">> ->
            create_case(cs, case_name, e.t1, e.t2, e.io, e.follow, e.who)
      [] action = <<"open">> -> open_case(cs, case_name, e.follow)
      [] action = <<"close">> -> close_case(cs, e.follow)
      [] action = <<"list">> -> list_cases(cs)
      [] action = <<"info">> -> case_info(cs, case_name)
      [] OTHER -> Raise(cs)

handle(cs, case_name, action, e) ==
    CASE action = <<"create">> ->
            create_case(cs, case_name, e.t1, e.t2, e.io, e.follow, e.who)
      [] action = <<"open">> -> open_case(cs, case_name, e.follow)
      [] action = <<"close">> -> close_case(cs, e.follow)
      [] action = <<"list">> -> list_cases(cs)
      [] action = <<"info">> -> case_info(cs, case_name)
      [] OTHER -> Ret(cs, cs.cur)

SetCS(cs) ==
    /\ dirs' = cs.dirs
    /\ files' = cs.files
    /\ meta' = cs.meta
    /\ cm_case' = cs.cur
    /\ cm_path' = cs.path
    /\ cwd' = cs.cwd
    /\ last_case' = cs.lastc

(***************************************************************************)
(* Tokens: shlex.split, str.lower, the artifact patterns                   *)
(***************************************************************************)
\* shlex.split on text with blanks and double quotes: blanks outside quotes
\* end a token, quotes group and are dropped, an open quote at the end is
\* ValueError("No closing quotation")
RECURSIVE shlex_scan(_, _, _, _, _)
shlex_scan(s, inq, cur, started, out) ==
    IF s = <<>> THEN
        IF inq THEN [ok |-> FALSE, parts |-> <<>>]
        ELSE [ok |-> TRUE, parts |-> IF started THEN Append(out, cur) ELSE out]
    ELSE LET a == Head(s) IN
         IF a = "\"" THEN shlex_scan(Tail(s), ~inq, cur, TRUE, out)
         ELSE IF a \in WS /\ ~inq THEN
            shlex_scan(Tail(s), FALSE, <<>>, FALSE,
                       IF started THEN Append(out, cur) ELSE out)
         ELSE shlex_scan(Tail(s), inq, Append(cur, a), TRUE, out)

\* a mutant of shlex_split that closes a quote left open at the end of the text
shlex_split_lenient(s) ==
    IF shlex_scan(s, FALSE, <<>>, FALSE, <<>>).ok
    THEN shlex_scan(s, FALSE, <<>>, FALSE, <<>>)
    ELSE shlex_scan(Append(s, "\""), FALSE, <<>>, FALSE, <<>>)

shlex_split(s) == shlex_scan(s, FALSE, <<>>, FALSE, <<>>)

\* str.lower on the words of the model
LowerAtom(a) ==
    CASE a = "CASE" -> "case"
      [] a = "EXIT" -> "exit"
      [] a = "LOOKUP" -> "lookup"
      [] a = "Help" -> "help"
      [] a = "HELP" -> "help"
      [] a = "QUIT" -> "quit"
      [] OTHER -> a
lower(s) == [i \in 1..Len(s) |-> LowerAtom(s[i])]

\* str.strip('"')
RECURSIVE strip_quotes(_)
strip_quotes(s) ==
    IF s # <<>> /\ Head(s) = "\"" THEN strip_quotes(Tail(s))
    ELSE IF s # <<>> /\ s[Len(s)] = "\"" THEN strip_quotes(SubSeq(s, 1, Len(s) - 1))
    ELSE s

\* The numeric atoms 25[0-5]|2[0-4]\d|1\d{2}|[1-9]?\d accepts ("300" is not one)
Octets == {"8", "255"}
\* abuseIPDB.IP_REGEX: four octets joined by dots
IP_REGEX(t) ==
    /\ Len(t) = 7
    /\ \A i \in {1, 3, 5, 7} : t[i] \in Octets
    /\ \A i \in {2, 4, 6} : t[i] = "."

\* malwareBazaar.HASH_REGEX: a run of 32, 40 or 64 hex digits (MD5, SHA1, SHA256);
\* "h32", "h40", "h64" are such runs, "h10" is a shorter one
HASH_REGEX(t) == Len(t) = 1 /\ t[1] \in {"h32", "h40", "h64"}

\* urlHaus.URL_REGEX: ^https?://[^\s/$.?#].[^\s]*$, ignoring letter case
URL_REGEX(t) ==
    /\ Len(t) >= 5
    /\ t[1] \in {"http", "https", "HTTP"}
    /\ t[2] = ":" /\ t[3] = "/" /\ t[4] = "/"
    /\ t[5] \notin WS \cup {"/", "$", ".", "?", "#"}
    /\ \A i \in 6..Len(t) : t[i] \notin WS

(***************************************************************************)
(* CommandHandler                                                          *)
(***************************************************************************)
\* What a built-in did: the provider functions it called, in order, the
\* message it printed, whether it raised.
Fx(calls, diag) == [calls |-> calls, diag |-> diag, raised |-> FALSE]
\* a provider call: its outcome p is "ok" or "raise"
Provider(name, p) == [calls |-> <<name>>, diag |-> "report", raised |-> p = "raise"]

DocMap == { <<"help">>, <<"exit">>, <<"clear">>, <<"mhistory">>, <<"hash">>,
            <<"ipcheck">>, <<"urlcheck">>, <<"lookup">>, <<"case">> }

help(args) ==
    IF args # <<>>
    THEN IF lower(args[1]) \in DocMap THEN Fx(<<>>, "help_details")
         ELSE Fx(<<>>, "no_such_command")
    ELSE Fx(<<>>, "help_overview")

\* hash(args); exists: whether the named file exists
hash(args, p, exists) ==
    IF args = <<>> THEN Fx(<<>>, "usage")
    ELSE IF \E i \in 1..Len(args) : args[i] = <<"-h">> THEN
        LET idx == CHOOSE i \in 1..Len(args) :
                       args[i] = <<"-h">> /\ \A j \in 1..(i - 1) : args[j] # <<"-h">>
        IN  IF idx + 1 > Len(args) THEN Fx(<<>>, "usage")
            ELSE IF ~HASH_REGEX(args[idx + 1]) THEN Fx(<<>>, "invalid_format")
            ELSE Provider("mb_lookup", p)
    ELSE IF ~exists THEN Fx(<<>>, "file_not_found")
    ELSE IF p = "raise" THEN [calls |-> <<"mb_lookup">>, diag |-> "error_hashing",
                              raised |-> FALSE]
    ELSE Provider("mb_lookup", p)

\* a mutant of ipcheck that asks the provider whatever the argument looks like
ipcheck_no_validation(args, p) ==
    IF Len(args) # 1 THEN Fx(<<>>, "usage")
    ELSE Provider("abuse_ip", p)

ipcheck(args, p) ==
    IF Len(args) # 1 THEN Fx(<<>>, "usage")
    ELSE IF IP_REGEX(args[1]) THEN Provider("abuse_ip", p)
    ELSE Fx(<<>>, "invalid_format")

urlcheck(args, p) ==
    IF Len(args) # 1 THEN Fx(<<>>, "usage")
    ELSE IF ~URL_REGEX(args[1]) THEN Fx(<<>>, "invalid_format")
    ELSE Provider("url_lookup", p)

\* a mutant of lookup that tests the patterns with three separate ifs, the
\* else belonging to the last one
lookup_separate_ifs(args, p) ==
    IF Len(args) # 1 THEN Fx(<<>>, "usage")
    ELSE LET target == args[1]
             calls == (IF IP_REGEX(target) THEN <<"abuse_ip">> ELSE <<>>)
                      \o (IF HASH_REGEX(target) THEN <<"mb_lookup">> ELSE <<>>)
                      \o (IF URL_REGEX(target) THEN <<"url_lookup">> ELSE <<>>)
         IN  [calls |-> calls,
              diag |-> IF URL_REGEX(target) THEN "report" ELSE "unrecognized",
              raised |-> calls # <<>> /\ p = "raise"]

lookup(args, p) ==
    IF Len(args) # 1 THEN Fx(<<>>, "usage")
    ELSE LET target == args[1] IN
         IF IP_REGEX(target) THEN Provider("abuse_ip", p)
         ELSE IF HASH_REGEX(target) THEN Provider("mb_lookup", p)
         ELSE IF URL_REGEX(target) THEN Provider("url_lookup", p)
         ELSE Fx(<<>>, "unrecognized")

\* CommandHandler.case(args, case_manager, current_case): the case store it
\* leaves, the value it returns, whether the case operation raised
handler_case(cs, args, cur, e) ==
    IF Len(args) < 1 \/ args[1] \notin {<<"-n">>, <<"-o">>, <<"-c">>}
    THEN Ret(cs, cur)
    ELSE LET action == CASE args[1] = <<"-n">> -> <<"create">>
                         [] args[1] = <<"-o">> -> <<"open">>
                         [] OTHER -> <<"close">>
             case_name == IF Len(args) > 1 THEN Str(strip_quotes(args[2])) ELSE NoneV
         IN  IF action # <<"close">>
                /\ (~Truthy(case_name)
                    \/ \E i \in 1..Len(case_name.v) : case_name.v[i] \in Reserved)
             THEN Ret(cs, cur)
             ELSE LET r == handle(cs, case_name, action, e) IN
                  IF r.raised THEN r
                  ELSE Ret(r.cs, IF action = <<"close">> THEN NoneV
                                 ELSE IF PyTruthy(r.result) THEN r.result ELSE cur)

\* a mutant of the command table that has no entry for mhistory
Commands_without_mhistory ==
    { <<"help">>, <<"exit">>, <<"clear">>, <<"hash">>, <<"ipcheck">>, <<"urlcheck">>,
      <<"lookup">> }

Commands == { <<"help">>, <<"exit">>, <<"clear">>, <<"mhistory">>, <<"hash">>,
              <<"ipcheck">>, <<"urlcheck">>, <<"lookup">> }

\* What execute did: the case store, (continue_shell, new_current_case), whether
\* an exception left it, the handler taken, the provider calls, the message,
\* whether a host process was started.
Done(cs, cont, cur, raised, route, calls, diag, ext) ==
    [cs |-> cs, cont |-> cont, cur |-> cur, raised |-> raised, route |-> route,
     calls |-> calls, diag |-> diag, ext |-> ext]

\* x: the outcomes of what the command touches outside the process
\*   x.p "ok" | "raise"             a provider function
\*   x.exists                        the file named to hash
\*   x.run "ok" | "nonzero" | "notfound" | "oserror"   subprocess.run
execute(cs, command, args, cur, e, x) ==
    LET cmd == lower(command) IN
    IF cmd = <<"case">> THEN
        LET r == handler_case(cs, args, cur, e) IN
        Done(r.cs, TRUE, IF r.raised THEN cur ELSE r.result, r.raised,
             "handler_case", <<>>, "case", FALSE)
    ELSE IF cmd \in {<<"exit">>, <<"quit">>} THEN
        Done(cs, FALSE, cur, FALSE, "exit", <<>>, "exiting", FALSE)
    ELSE IF cmd \in Commands THEN
        LET fx == CASE cmd = <<"help">> -> help(args)
                    [] cmd = <<"exit">> -> Fx(<<>>, "exiting")
                    [] cmd = <<"clear">> -> Fx(<<>>, "cleared")
                    [] cmd = <<"mhistory">> -> Fx(<<>>, "history_table")
                    [] cmd = <<"hash">> -> hash(args, x.p, x.exists)
                    [] cmd = <<"ipcheck">> -> ipcheck(args, x.p)
                    [] cmd = <<"urlcheck">> -> urlcheck(args, x.p)
                    [] OTHER -> lookup(args, x.p)
        IN  Done(cs, TRUE, cur, FALSE, cmd[1], fx.calls,
                 IF fx.raised THEN "error_executing" ELSE fx.diag, FALSE)
    ELSE CASE x.run = "ok" -> Done(cs, TRUE, cur, FALSE, "external", <<>>, "stdout", TRUE)
           [] x.run = "nonzero" ->
                Done(cs, TRUE, cur, FALSE, "external", <<>>, "command_failed", TRUE)
           [] x.run = "notfound" ->
                Done(cs, TRUE, cur, FALSE, "external", <<>>, "unknown_command", TRUE)
           [] OTHER -> Done(cs, TRUE, cur, TRUE, "external", <<>>, "none", TRUE)

(***************************************************************************)
(* The case manager on its own: calls through its API.                     *)
(***************************************************************************)
WriteIO == {"ok", "mkdir_fail", "open_fail", "write_fail"}
ApiNames == { NoneV, Str(<<>>), Str(<<"c1">>), Str(<<"c2">>) }
EvidencePaths == { << <<"f">> >>, << <<"/">>, <<"e">> >> }

NoOp == [op |-> "none"]
Op(op, arg, r, fresh) ==
    [op |-> op, arg |-> arg, res |-> r.result, raised |-> r.raised, fresh |-> fresh]

\* The disks a session can start from: c2 absent, a directory without
\* metadata, a directory of an unreadable case.json, or a case with evidence;
\* two of them with a plain file next to the case directories.
OldDoc == Doc(<<"c2">>, 0, 0, "bob",
              <<EvidenceEntry(<< <<"/">>, <<"old">> >>, <<>>, 0)>>, <<>>)
InitDisks == { [d |-> {}, m |-> Missing, f |-> {}],
               [d |-> {<<"c2">>}, m |-> Missing, f |-> {StrayFile}],
               [d |-> {<<"c2">>}, m |-> Corrupt, f |-> {}],
               [d |-> {<<"c2">>}, m |-> OldDoc, f |-> {StrayFile}] }

Nothing == [route |-> "none"]
FsIdle == [pc |-> "idle"]

ShellIdle ==
    /\ loop = "Idle"
    /\ raw = <<>>
    /\ parts = <<>>
    /\ current_case = NoneV
    /\ did = Nothing
    /\ fs = FsIdle

CaseIdle ==
    /\ dirs = {}
    /\ files = {}
    /\ meta = [n \in CaseNames |-> Missing]
    /\ cm_case = NoneV
    /\ cm_path = NoneV
    /\ cwd = StartDir
    /\ last_case = <<>>
    /\ chdir_on_open = TRUE
    /\ user = "alice"
    /\ last = NoOp
    /\ prev = NoOp
    /\ given = [n \in CaseNames |-> NoneV]

NoRows == [read |-> FALSE]

HistIdle ==
    /\ history_file = <<>>
    /\ max_entries = DefaultMaxEntries
    /\ appended = <<>>
    /\ rows = NoRows
    /\ hstat = "none"

CaseInit ==
    /\ HistIdle
    /\ clock = 0
    /\ ncalls = 0
    /\ \E disk \in InitDisks :
        /\ dirs = disk.d
        /\ files = disk.f
        /\ meta = [n \in CaseNames |-> IF n = <<"c2">> THEN disk.m ELSE Missing]
    /\ cm_case = NoneV
    /\ cm_path = NoneV
    /\ cwd = StartDir
    /\ last_case = <<>>
    /\ chdir_on_open \in BOOLEAN
    /\ user = "alice"
    /\ last = NoOp
    /\ prev = NoOp
    /\ given = [n \in CaseNames |-> NoneV]
    /\ ShellIdle

Step(op, arg, r, fresh) ==
    /\ ncalls < MaxOps
    /\ ncalls' = ncalls + 1
    /\ SetCS(r.cs)
    /\ prev' = IF last.op = "none" THEN NoOp
                ELSE [op |-> last.op, arg |-> last.arg, raised |-> last.raised,
                      fresh |-> last.fresh]
    /\ last' = Op(op, arg, r, fresh)
    /\ UNCHANGED <<history_file, max_entries, appended, rows, hstat,
                   chdir_on_open, user, svars>>

ApiCreate ==
    \E name \in ApiNames, d1 \in 0..1, d2 \in 0..1, io \in WriteIO :
        LET e == Env(clock + d1, clock + d1 + d2, io)
            r == handle(CS, name, <<"create">>, e)
            fresh == Truthy(name) /\ name.v \notin dirs
        IN  /\ Step("create", name, r, fresh)
            /\ clock' = IF fresh /\ io # "mkdir_fail" THEN e.t2 ELSE clock
            /\ given' = IF fresh /\ ~r.raised
                        THEN [given EXCEPT ![name.v] = ListV(<<>>)]
                        ELSE given

ApiOpen ==
    \E name \in ApiNames :
        /\ Step("open", name, handle(CS, name, <<"open">>, Env(clock, clock, "ok")), FALSE)
        /\ UNCHANGED <<clock, given>>

ApiClose ==
    /\ Step("close", NoneV, handle(CS, NoneV, <<"close">>, Env(clock, clock, "ok")), FALSE)
    /\ UNCHANGED <<clock, given>>

ApiList ==
    /\ Step("list", NoneV, handle(CS, NoneV, <<"list">>, Env(clock, clock, "ok")), FALSE)
    /\ UNCHANGED <<clock, given>>

ApiInfo ==
    \E name \in ApiNames :
        /\ Step("info", name, handle(CS, name, <<"info">>, Env(clock, clock, "ok")), FALSE)
        /\ UNCHANGED <<clock, given>>

ApiAddEvidence ==
    \E p \in EvidencePaths, d1 \in 0..1, d2 \in 0..1, io \in WriteIO \ {"mkdir_fail"} :
        LET r == add_evidence(CS, p, <<>>, clock + d1, clock + d1 + d2, io)
            wrote == Truthy(cm_path) /\ ~r.raised
                     /\ MetaOf(CS, cm_case.v).kind = "doc"
        IN  /\ Step("add_evidence", Str(p), r, FALSE)
            /\ clock' = IF Truthy(cm_path) /\ MetaOf(CS, cm_case.v).kind = "doc"
                        THEN clock + d1 + d2 ELSE clock
            /\ given' = IF wrote /\ given[cm_case.v].kind = "list"
                        THEN [given EXCEPT ![cm_case.v] =
                                ListV(Append(@.v, [path |-> p, wd |-> cwd]))]
                        ELSE given

CaseNext ==
    ApiCreate \/ ApiOpen \/ ApiClose \/ ApiList \/ ApiInfo \/ ApiAddEvidence

CaseSpec == CaseInit /\ [][CaseNext]_vars

(***************************************************************************)
(* The history manager on its own: appends and reads through its API.      *)
(***************************************************************************)
HistCommands ==
    { <<"a">>, <<"#", "a">>, <<"a", "|", "b">>, <<" ">> }
HistCases == { NoneV, Str(<<"c1">>) }
AppendIO == {"ok", "fail"}
RotateIO == {"ok", "fallback", "fallback_fail", "read_fail"}
Limits == {NoneV} \cup {IntV(k) : k \in 0..2}

HistInit ==
    /\ history_file = <<>>
    /\ max_entries \in 1..MaxN
    /\ clock = 0
    /\ appended = <<>>
    /\ rows = NoRows
    /\ hstat = "none"
    /\ ncalls = 0
    /\ CaseIdle
    /\ ShellIdle

HistAppend ==
    \E cmd \in HistCommands, case \in HistCases, tick \in 0..1,
       ioA \in AppendIO, ioR \in RotateIO :
        /\ ncalls < MaxAppends
        /\ ncalls' = ncalls + 1
        /\ clock' = clock + tick
        /\ LET r == save_history(history_file, max_entries, cmd, case,
                                 strftime(clock'), ioA, ioR)
           IN  /\ history_file' = r.file
               /\ hstat' = r.stat
               /\ appended' =
                    IF r.stat = "ok"
                    THEN Append(appended,
                                Entry(strip(cmd), strftime(clock'),
                                      IF case.kind = "none" THEN <<>> ELSE case.v))
                    ELSE appended
        /\ rows' = NoRows
        /\ UNCHANGED <<max_entries, cvars, svars>>

HistRead ==
    \E limit \in Limits :
        /\ rows' = [read |-> TRUE, limit |-> limit,
                     items |-> parse_history(history_file, limit)]
        /\ UNCHANGED <<history_file, max_entries, clock, appended, hstat, ncalls, cvars, svars>>

\* display_history(limit) prints its table
HistDisplay ==
    \E limit \in Limits :
        /\ rows' = [read |-> FALSE, limit |-> limit,
                     table |-> display_history(history_file, limit)]
        /\ UNCHANGED <<history_file, max_entries, clock, appended, hstat, ncalls, cvars, svars>>

HistNext == HistAppend \/ HistRead

HistSpec == HistInit /\ [][HistNext]_vars

(***************************************************************************)
(* Reading a history file that holds any mix of lines.                     *)
(***************************************************************************)
\* The lines a history file may hold: two-field and three-field records, a
\* blank line, the "# <time>" and "+<line>" lines of prompt_toolkit, a line
\* without separator, a line with an empty command, one with a blank timestamp
StoredLines ==
    { <<"a", "|", "1">>, <<" ", "b", "|", "2", "|", "c1">>, <<>>,
      <<"#", " ", "1">>, <<"+", "a">>, <<"junk">>, <<"|", "3">>, <<"a", "|", " ">> }
StoredFiles == UNION { [1..n -> StoredLines] : n \in 0..MaxFileLines }

ParseInit ==
    /\ history_file \in StoredFiles
    /\ max_entries = DefaultMaxEntries
    /\ clock = 0
    /\ appended = <<>>
    /\ rows = NoRows
    /\ hstat = "none"
    /\ ncalls = 0
    /\ CaseIdle
    /\ ShellIdle

ParseNext == HistRead \/ HistDisplay

ParseSpec == ParseInit /\ [][ParseNext]_vars

(***************************************************************************)
(* The session: mimir(), the read-record-dispatch loop                     *)
(***************************************************************************)
RECURSIVE Join(_)
Join(tokens) ==
    IF tokens = <<>> THEN <<>>
    ELSE IF Len(tokens) = 1 THEN tokens[1]
    ELSE tokens[1] \o <<" ">> \o Join(Tail(tokens))

\* The lines typed in a session about cases, as token lists and as raw text
\* (with a line that leaves a quote open and a blank line) ...
CaseLines ==
    { << <<"case">>, <<"create">>, <<"c1">> >>,
      << <<"case">>, <<"create">>, <<"a", ":", "b">> >>,
      << <<"case">>, <<"open">>, <<"c2">> >>,
      << <<"case">>, <<"close">> >>,
      << <<"case">>, <<"list">> >>,
      << <<"case">>, <<"info">> >>,
      << <<"CASE">>, <<"-n">>, <<"a", ":", "b">> >>,
      << <<"ls">>, <<"|">>, <<"wc">> >>,
      << <<"exit">> >> }
CaseTyped ==
    { Join(t) : t \in CaseLines }
    \cup { <<"case", " ", "open", " ", "\"", "c2">>, <<" ">> }

\* ... and in a session of look-ups, built-ins and host commands
RouteLines ==
    { << <<"lookup">>, <<"8", ".", "8", ".", "8", ".", "8">> >>,
      << <<"lookup">>, <<"h64">> >>,
      << <<"lookup">>, <<"http", ":", "/", "/", "host">> >>,
      << <<"lookup">>, <<"junk">> >>,
      << <<"LOOKUP">>, <<"300", ".", "8", ".", "8", ".", "8">> >>,
      << <<"ipcheck">>, <<"300", ".", "8", ".", "8", ".", "8">> >>,
      << <<"urlcheck">>, <<"http", ":", "/", "/", "host">> >>,
      << <<"hash">>, <<"-h">>, <<"h10">> >>,
      << <<"hash">>, <<"f">> >>,
      << <<"help">> >>,
      << <<"clear">> >>,
      << <<"mhistory">> >>,
      << <<"frob">> >>,
      << <<"EXIT">> >> }
RouteTyped == { Join(t) : t \in RouteLines }

\* ... and in a session of command words in both letter cases and of case
\* commands that lack a subcommand or a name
CmdLines ==
    { << <<"case">> >>,
      << <<"case">>, <<"frob">> >>,
      << <<"case">>, <<"create">> >>,
      << <<"case">>, <<"open">> >>,
      << <<"case">>, <<"create">>, <<"c1">> >>,
      << <<"CASE">>, <<"create">>, <<"c1">> >>,
      << <<"exit">> >>,
      << <<"EXIT">> >>,
      << <<"quit">> >>,
      << <<"help">> >>,
      << <<"HELP">> >> }
CmdTyped == { Join(t) : t \in CmdLines }

\* ... and in a session of case subcommands given as words and as the
\* options -n, -o, -c, and of the built-in words next to words that are not
\* commands
WordLines ==
    { << <<"case">>, <<"-n">>, <<"c1">> >>,
      << <<"case">>, <<"create">>, <<"c1">> >>,
      << <<"case">>, <<"-o">>, <<"c2">> >>,
      << <<"case">>, <<"open">>, <<"c2">> >>,
      << <<"case">>, <<"-c">> >>,
      << <<"case">>, <<"close">> >>,
      << <<"help">> >>,
      << <<"clear">> >>,
      << <<"mhistory">> >>,
      << <<"history">> >>,
      << <<"quit">> >>,
      << <<"Help">>, <<"mhistory">> >>,
      << <<"lookup">>, <<"junk">> >>,
      << <<"frob">> >> }

\* ... and in a session of look-ups with too few, too many, ill-formed and
\* well-formed arguments
ArgLines ==
    { << <<"ipcheck">> >>,
      << <<"ipcheck">>, <<"300", ".", "8", ".", "8", ".", "8">> >>,
      << <<"ipcheck">>, <<"8", ".", "8", ".", "8", ".", "8">> >>,
      << <<"urlcheck">>, <<"junk">> >>,
      << <<"urlcheck">>, <<"http", ":", "/", "/", "host">>, <<"junk">> >>,
      << <<"hash">> >>,
      << <<"hash">>, <<"-h">> >>,
      << <<"hash">>, <<"-h">>, <<"h10">> >>,
      << <<"hash">>, <<"-h">>, <<"h64">> >>,
      << <<"lookup">> >>,
      << <<"lookup">>, <<"junk">> >>,
      << <<"lookup">>, <<"h64">>, <<"h64">> >> }

\* prompt_toolkit's FileHistory, attached to the same file: an accepted line
\* that is not empty and differs from the last stored one is written as a
\* blank line, "# <time>" and "+<line>"
RECURSIVE FileHistory_last(_)
FileHistory_last(f) ==
    IF f = <<>> THEN NoneV
    ELSE IF startswith(f[Len(f)], {"+"}) THEN Str(Tail(f[Len(f)]))
    ELSE FileHistory_last(SubSeq(f, 1, Len(f) - 1))

FileHistory_store(f, text, ts) ==
    IF text = <<>> \/ FileHistory_last(f) = Str(text) THEN f
    ELSE f \o << <<>>, <<"#", " ">> \o ts, <<"+">> \o text >>

RunOutcomes == {"ok", "nonzero", "notfound", "oserror"}
ProviderOutcomes == {"ok", "raise"}

Init ==
    /\ HistIdle
    /\ clock = 0
    /\ ncalls = 0
    /\ \E disk \in InitDisks :
        /\ dirs = disk.d
        /\ files = disk.f
        /\ meta = [n \in CaseNames |-> IF n = <<"c2">> THEN disk.m ELSE Missing]
    /\ cm_case = NoneV
    /\ cm_path = NoneV
    /\ cwd = StartDir
    /\ last_case = <<>>
    /\ chdir_on_open = TRUE
    /\ user = "alice"
    /\ last = NoOp
    /\ prev = NoOp
    /\ given = [n \in CaseNames |-> NoneV]
    /\ ShellIdle

\* session.prompt() raised EOFError or KeyboardInterrupt
ReadEnd ==
    /\ loop = "Idle"
    /\ loop' = "Stopped"
    /\ UNCHANGED <<hvars, cvars, raw, parts, current_case, did, fs>>

\* a mutant of ReadFrom that goes on reading after the loop has stopped
ReadFrom_after_stop(typed) ==
    \E text \in typed :
        /\ loop \in {"Idle", "Stopped"}
        /\ ncalls < MaxLines
        /\ ncalls' = ncalls + 1
        /\ clock' = clock + 1
        /\ history_file' = FileHistory_store(history_file, text, strftime(clock'))
        /\ raw' = strip(text)
        /\ loop' = IF raw' = <<>> THEN "Idle" ELSE "Recording"
        /\ parts' = <<>>
        /\ did' = Nothing
        /\ hstat' = "none"
        /\ UNCHANGED <<max_entries, appended, rows, cvars, current_case, fs>>

\* session.prompt() returned a line; one clock tick passes per line
ReadFrom(typed) ==
    \E text \in typed :
        /\ loop = "Idle"
        /\ ncalls < MaxLines
        /\ ncalls' = ncalls + 1
        /\ clock' = clock + 1
        /\ history_file' = FileHistory_store(history_file, text, strftime(clock'))
        /\ raw' = strip(text)
        /\ loop' = IF raw' = <<>> THEN "Idle" ELSE "Recording"
        /\ parts' = <<>>
        /\ did' = Nothing
        /\ hstat' = "none"
        /\ UNCHANGED <<max_entries, appended, rows, cvars, current_case, fs>>

\* a mutant of Record that gives up the line when it could not be recorded
Record_or_skip ==
    \E ioA \in AppendIO, ioR \in RotateIO :
        LET r == save_history(history_file, max_entries, raw, NoneV,
                              strftime(clock), ioA, ioR)
            sp == shlex_split(raw)
        IN  /\ loop = "Recording"
            /\ history_file' = r.file
            /\ hstat' = r.stat
            /\ IF r.stat = "ok" /\ sp.ok /\ sp.parts # <<>>
               THEN loop' = "Dispatching" /\ parts' = sp.parts /\ did' = did
               ELSE loop' = "Idle" /\ parts' = <<>>
                    /\ did' = [route |-> "parse_error"]
            /\ UNCHANGED <<max_entries, clock, appended, rows, ncalls, cvars,
                           raw, current_case, fs>>

\* history_manager.save_history(raw), then shlex.split(raw)
Record ==
    \E ioA \in AppendIO, ioR \in RotateIO :
        LET r == save_history(history_file, max_entries, raw, NoneV,
                              strftime(clock), ioA, ioR)
            sp == shlex_split(raw)
        IN  /\ loop = "Recording"
            /\ history_file' = r.file
            /\ hstat' = r.stat
            /\ IF sp.ok /\ sp.parts # <<>>
               THEN loop' = "Dispatching" /\ parts' = sp.parts /\ did' = did
               ELSE loop' = "Idle" /\ parts' = <<>>
                    /\ did' = [route |-> "parse_error"]
            /\ UNCHANGED <<max_entries, clock, appended, rows, ncalls, cvars,
                           raw, current_case, fs>>

Did(route, command, args, calls, diag, ext, raised) ==
    [route |-> route, command |-> command, args |-> args, calls |-> calls,
     diag |-> diag, ext |-> ext, raised |-> raised]

\* What the rest of the loop body does with the tokens of a line: the case
\* store, the shell's current_case, where the loop goes, and what was done.
Went(cs, cur, to, d) == [cs |-> cs, cur |-> cur, loop |-> to, did |-> d]

\* the rest of the loop body: the built-ins of mimir(), its case branch, and
\* command_handler.execute inside try/except
dispatch(cs, cur, ps, e, x) ==
    LET command == ps[1]
        args == Tail(ps)
    IN
    IF command \in {<<"exit">>, <<"quit">>} THEN
        Went(cs, cur, "Stopped",
             Did("shell_exit", command, args, <<>>, "goodbye", FALSE, FALSE))
    ELSE IF command \in {<<"clear">>, <<"help">>} THEN
        Went(cs, cur, "Idle",
             Did("shell_" \o command[1], command, args, <<>>, command[1], FALSE, FALSE))
    ELSE IF command = <<"case">> THEN
        IF args = <<>> THEN
            Went(cs, cur, "Idle",
                 Did("shell_case", command, args, <<>>, "usage", FALSE, FALSE))
        ELSE LET action == args[1]
                 case_name == IF Len(args) > 1 THEN Str(args[2]) ELSE NoneV
                 r == handle(cs, case_name, action, e)
             IN  Went(r.cs,
                      IF r.raised THEN cur
                      ELSE IF PyTruthy(r.result) THEN r.result ELSE r.cs.cur,
                      IF r.raised THEN "Died" ELSE "Idle",
                      Did("shell_case", command, args, <<>>, "case", FALSE, r.raised))
    ELSE LET d == execute(cs, command, args, cur, e, x) IN
        Went(d.cs,
             IF d.raised THEN cur ELSE d.cur,
             IF d.raised \/ d.cont THEN "Idle" ELSE "Stopped",
             Did(d.route, command, args, d.calls,
                 IF d.raised THEN "command_error" ELSE d.diag, d.ext, d.raised))

Dispatch ==
    \E io \in WriteIO, p \in ProviderOutcomes, exists \in BOOLEAN, run \in RunOutcomes :
        LET w == dispatch(CS, current_case, parts, Env(clock, clock, io),
                          [p |-> p, exists |-> exists, run |-> run])
        IN
        /\ loop = "Dispatching"
        /\ SetCS(w.cs)
        /\ loop' = w.loop
        /\ current_case' = w.cur
        /\ did' = w.did
        /\ rows' = IF did'.route = "mhistory"
                   THEN [read |-> TRUE, limit |-> NoneV,
                         items |-> parse_history(history_file, NoneV)]
                   ELSE rows
        /\ UNCHANGED <<history_file, max_entries, clock, appended, hstat, ncalls,
                       raw, parts, fs, chdir_on_open, user, last, prev, given>>

ReadLine == ReadFrom(CaseTyped)

Next == ReadEnd \/ ReadLine \/ Record \/ Dispatch

Spec == Init /\ [][Next]_vars

ReadRouteLine == ReadFrom(RouteTyped)

RouteNext == ReadEnd \/ ReadRouteLine \/ Record \/ Dispatch

RouteSpec == Init /\ [][RouteNext]_vars

ReadCmdLine == ReadFrom(CmdTyped)

CmdNext == ReadEnd \/ ReadCmdLine \/ Record \/ Dispatch

CmdSpec == Init /\ [][CmdNext]_vars

\* One line of a session seen from the history file, with a small maximum
\* and a rotation that works: the line editor's FileHistory stores the
\* accepted line in the file, then save_history(raw) appends its record and
\* rotates.
SessionAppend ==
    \E cmd \in { <<"a">>, <<"b">> }, tick \in 0..1, ioA \in AppendIO :
        /\ ncalls < MaxAppends
        /\ ncalls' = ncalls + 1
        /\ clock' = clock + tick
        /\ LET r == save_history(FileHistory_store(history_file, cmd, strftime(clock')),
                                 max_entries, cmd, NoneV, strftime(clock'), ioA, "ok")
           IN  /\ history_file' = r.file
               /\ hstat' = r.stat
               /\ appended' = IF r.stat = "ok"
                              THEN Append(appended, Entry(cmd, strftime(clock'), <<>>))
                              ELSE appended
        /\ rows' = NoRows
        /\ UNCHANGED <<max_entries, cvars, svars>>

EditorNext == SessionAppend \/ HistRead

EditorSpec == HistInit /\ [][EditorNext]_vars

ReadWordLine == ReadFrom({ Join(t) : t \in WordLines })

WordNext == ReadEnd \/ ReadWordLine \/ Record \/ Dispatch

WordSpec == Init /\ [][WordNext]_vars

ReadArgLine == ReadFrom({ Join(t) : t \in ArgLines })

ArgNext == ReadEnd \/ ReadArgLine \/ Record \/ Dispatch

ArgSpec == Init /\ [][ArgNext]_vars

(***************************************************************************)
(* The file operations step by step: what is on disk between two           *)
(* file-system calls of _write_metadata and of save_history, where another *)
(* reader may look or the process may be killed.                           *)
(***************************************************************************)
FsNames == { <<"c1">>, <<"c2">> }
FsCommands == { <<"a">>, <<"b">> }

FsInit ==
    /\ history_file = <<>>
    /\ max_entries \in 1..MaxN
    /\ appended = <<>>
    /\ rows = NoRows
    /\ hstat = "none"
    /\ clock = 0
    /\ ncalls = 0
    /\ \E disk \in InitDisks :
        /\ dirs = disk.d
        /\ files = disk.f
        /\ meta = [n \in CaseNames |-> IF n = <<"c2">> THEN disk.m ELSE Missing]
    /\ cm_case = NoneV
    /\ cm_path = NoneV
    /\ cwd = StartDir
    /\ last_case = <<>>
    /\ chdir_on_open = TRUE
    /\ user = "alice"
    /\ last = NoOp
    /\ prev = NoOp
    /\ given = [n \in CaseNames |-> NoneV]
    /\ ShellIdle

FsFrame == UNCHANGED <<max_entries, appended, rows, hstat, chdir_on_open, user,
                       last, prev, given, loop, raw, parts, current_case, did>>
CaseFrame == UNCHANGED <<files, cm_case, cm_path, cwd, last_case>>

MetaWrite(name, doc, then) ==
    [pc |-> "meta_open", kind |-> "meta", name |-> name, doc |-> doc, then |-> then,
     before |-> meta[name], after |-> doc]

\* create_case up to os.makedirs; _write_metadata follows
FsCreate ==
    \E name \in FsNames :
        /\ fs.pc = "idle" /\ ncalls < MaxOps
        /\ name \notin dirs
        /\ ncalls' = ncalls + 1
        /\ clock' = clock + 1
        /\ dirs' = dirs \cup {name}
        /\ fs' = MetaWrite(name, Doc(name, clock', clock', user, <<>>, <<>>), "create")
        /\ UNCHANGED <<meta, history_file>>
        /\ CaseFrame /\ FsFrame

\* open_case: makes a case with a case.json the active one
FsOpen ==
    \E name \in FsNames :
        /\ fs.pc = "idle" /\ ncalls < MaxOps
        /\ ncalls' = ncalls + 1
        /\ SetCS(open_case(CS, Str(name), chdir_on_open).cs)
        /\ UNCHANGED <<clock, history_file, fs>>
        /\ FsFrame

\* add_evidence up to the update of the loaded document; _write_metadata follows
FsAddEvidence ==
    \E p \in EvidencePaths :
        /\ fs.pc = "idle" /\ ncalls < MaxOps
        /\ Truthy(cm_path)
        /\ meta[cm_case.v].kind = "doc"
        /\ ncalls' = ncalls + 1
        /\ clock' = clock + 1
        /\ fs' = MetaWrite(cm_case.v,
                           [meta[cm_case.v] EXCEPT
                               !.evidence = Append(@, EvidenceEntry(abspath(p, cwd),
                                                                    <<>>, clock')),
                               !.updated = clock'],
                           "add")
        /\ UNCHANGED <<dirs, meta, history_file>>
        /\ CaseFrame /\ FsFrame

\* _write_metadata: open(meta_path, "w") creates or truncates case.json
MetaOpen ==
    /\ fs.pc = "meta_open"
    /\ \/ /\ meta' = [meta EXCEPT ![fs.name] = Corrupt]
          /\ fs' = [fs EXCEPT !.pc = "meta_dump"]
       \/ /\ meta' = meta               \* open raised
          /\ fs' = FsIdle
    /\ UNCHANGED <<dirs, history_file, clock, ncalls>>
    /\ CaseFrame /\ FsFrame

\* _write_metadata: json.dump and the close of the file; create_case then
\* makes the case the active one
MetaDump ==
    /\ fs.pc = "meta_dump"
    /\ \/ /\ meta' = [meta EXCEPT ![fs.name] = fs.doc]
          /\ IF fs.then = "create"
             THEN SetCS(Activate([CS EXCEPT !.meta = meta'], fs.name, chdir_on_open))
             ELSE UNCHANGED <<dirs, files, cm_case, cm_path, cwd, last_case>>
       \/ /\ UNCHANGED <<dirs, meta>>   \* the write raised
          /\ CaseFrame
    /\ fs' = FsIdle
    /\ UNCHANGED <<history_file, clock, ncalls>>
    /\ FsFrame

\* before: the file before the append; full: with the appended line, as the
\* rotation reads it; after: the lines the rotation keeps
HistWrite(pc, before, full, after) ==
    [pc |-> pc, kind |-> "hist", before |-> before, full |-> full, after |-> after]

\* save_history: the line is appended to the file in place
FsAppend ==
    \E cmd \in FsCommands :
        /\ fs.pc = "idle" /\ ncalls < MaxOps
        /\ ncalls' = ncalls + 1
        /\ clock' = clock + 1
        /\ history_file' = Append(history_file,
                                  _serialize_line(cmd, strftime(clock'), NoneV))
        /\ fs' = IF Len(NonBlank(history_file')) > max_entries
                 THEN HistWrite("rotate_tmp", history_file, history_file',
                                LastN(NonBlank(history_file'), max_entries))
                 ELSE FsIdle
        /\ UNCHANGED <<dirs, meta>>
        /\ CaseFrame /\ FsFrame

\* save_history: the kept lines go to a temp file, which replaces the history
\* file; when either raises, the fallback opens the history file for writing
RotateReplace ==
    /\ fs.pc = "rotate_tmp"
    /\ \/ history_file' = fs.after /\ fs' = FsIdle
       \/ history_file' = history_file /\ fs' = [fs EXCEPT !.pc = "fallback_open"]
    /\ UNCHANGED <<dirs, meta, clock, ncalls>>
    /\ CaseFrame /\ FsFrame

\* save_history, fallback: open(history_file, "w") truncates the file
FallbackOpen ==
    /\ fs.pc = "fallback_open"
    /\ \/ history_file' = <<>> /\ fs' = [fs EXCEPT !.pc = "fallback_write"]
       \/ history_file' = history_file /\ fs' = FsIdle     \* open raised
    /\ UNCHANGED <<dirs, meta, clock, ncalls>>
    /\ CaseFrame /\ FsFrame

\* save_history, fallback: writelines(keep)
FallbackWrite ==
    /\ fs.pc = "fallback_write"
    /\ \/ history_file' = fs.after
       \/ history_file' = history_file                     \* the write raised
    /\ fs' = FsIdle
    /\ UNCHANGED <<dirs, meta, clock, ncalls>>
    /\ CaseFrame /\ FsFrame

\* the process is killed between two file-system calls
Crash ==
    /\ fs.pc \notin {"idle", "crashed"}
    /\ fs' = [fs EXCEPT !.pc = "crashed"]
    /\ UNCHANGED <<dirs, meta, history_file, clock, ncalls>>
    /\ CaseFrame /\ FsFrame

FsNext ==
    \/ FsCreate \/ FsOpen \/ FsAddEvidence \/ MetaOpen \/ MetaDump
    \/ FsAppend \/ RotateReplace \/ FallbackOpen \/ FallbackWrite \/ Crash

FsSpec == FsInit /\ [][FsNext]_vars

(***************************************************************************)
(* Properties                                                              *)
(***************************************************************************)
Min(a, b) == IF a <= b THEN a ELSE b
\* the last k elements of xs, for any k >= 0
Suffix(xs, k) == SubSeq(xs, Len(xs) - Min(k, Len(xs)) + 1, Len(xs))

\* C4 (as claimed): after M successful appends to an initially empty history
\* with maximum N, the entries a read returns are exactly the last min(M, N)
\* appended ones, in chronological order on disk, and at most N lines are stored.
C4_RotationKeepsLastN ==
    LET k == Min(Len(appended), max_entries) IN
    /\ parse_items(history_file) = Suffix(appended, k)
    /\ parse_history(history_file, NoneV) = Reverse(Suffix(appended, k))
    /\ Len(NonBlank(history_file)) <= max_entries

\* C5 (as claimed): with fewer entries appended than the maximum, an unlimited
\* read returns the appended entries most recent first, each with its command
\* text and its case field as appended.
C5_RoundTrip ==
    Len(appended) < max_entries =>
        parse_history(history_file, NoneV) = Reverse(appended)

\* The evidence entries a sequence of add_evidence calls is claimed to leave.
EvidenceInOrder(ev, calls, pathOf(_)) ==
    /\ Len(ev) = Len(calls)
    /\ \A i \in 1..Len(ev) : ev[i].file = pathOf(calls[i])
    /\ \A i \in 1..Len(ev), j \in 1..Len(ev) : i <= j => ev[i].added <= ev[j].added

GivenPath(c) == c.path
AbsoluteOfGiven(c) == IF isabs(c.path) THEN c.path ELSE c.wd \o c.path

ValidName(x) ==
    /\ Truthy(x)
    /\ \A i \in 1..Len(x.v) : x.v[i] \notin Reserved

InitialDocument(r) ==
    /\ r.kind = "dict"
    /\ r.v.evidence = <<>>
    /\ r.v.notes = <<>>
    /\ r.v.examiner = user

C3_AtomicReplace ==
    fs.pc # "idle" =>
        IF fs.kind = "meta" THEN meta[fs.name] \in {fs.before, fs.after}
        ELSE history_file \in {fs.before, fs.after}

\* C3 witness: the kill of the process between the open of case.json for
\* writing and the write of the document, on a case that had a document.
C3_Witness ==
    /\ fs.pc = "crashed" /\ fs.kind = "meta"
    /\ fs.before.kind = "doc"
    /\ meta[fs.name] = Corrupt

HasReserved(name) == \E i \in 1..Len(name) : name[i] \in Reserved

\* C1 (as claimed): an exception raised while handling an input line is caught
\* and turned into a printed diagnostic, and the loop goes on to read the next
\* line: the loop never ends because of an exception raised by one command.
C1_ExceptionsContained ==
    /\ loop # "Died"
    /\ (did.route \notin {"none", "parse_error"} /\ did.raised)
            => (loop = "Idle" /\ did.diag = "command_error")

\* C2 (as claimed): a case create or case open typed in the session with a
\* name that contains a reserved character creates no directory and no
\* metadata and leaves the active case unchanged.
C2_ReservedNameRejected ==
    [][(/\ loop = "Dispatching"
        /\ parts[1] = <<"case">> /\ Len(parts) >= 3
        /\ parts[2] \in {<<"create">>, <<"open">>}
        /\ HasReserved(parts[3]))
            => (/\ dirs' = dirs /\ meta' = meta
                /\ cm_case' = cm_case /\ current_case' = current_case)]_vars

Tokenises(text) == shlex_split(text).ok /\ shlex_split(text).parts # <<>>

\* C6: every non-empty line the loop reads has a history append attempted
\* before it is dispatched (a line is being dispatched, or was, only with the
\* outcome of its append at hand), and whether the line goes on to dispatch
\* depends on the line alone (it does when it splits into tokens; a line that
\* does not is answered with a parse error), never on whether the append
\* succeeded, was rejected or failed with an I/O error.
C6_AppendBeforeDispatch ==
    /\ []((loop = "Dispatching" \/ did.route \notin {"none", "parse_error"})
            => hstat \in {"ok", "rejected", "ioerror"})
    /\ [][loop = "Recording"
            => (/\ hstat' \in {"ok", "rejected", "ioerror"}
                /\ (loop' = "Dispatching") <=> Tokenises(raw))]_vars

\* C6 witness: a line was dispatched although its append was rejected.
C6_Witness ==
    /\ did.route \notin {"none", "parse_error"}
    /\ hstat = "rejected"

\* C6 witness: a line is about to be dispatched although its append failed.
C6_WitnessIOError ==
    /\ loop = "Dispatching"
    /\ hstat = "ioerror"

\* C7 (as claimed): every history entry the session records while a case is
\* active carries that case's name in its case field, and every entry
\* recorded while no case is active carries an empty case field.
C7_EntryCarriesActiveCase ==
    [][(loop = "Recording" /\ hstat' = "ok" /\ history_file' # <<>>)
            => _parse_line(history_file'[Len(history_file')]).case
                   = (IF Truthy(cm_case) THEN cm_case.v ELSE <<>>)]_vars

\* C10: lookup with one artifact calls exactly one provider, the one of the
\* first pattern the artifact matches in the order IP, hash, URL, and reports
\* no unrecognized type; an artifact that matches no pattern is reported as
\* unrecognized and no provider is called.
C10_LookupFirstMatch ==
    (did.route = "lookup" /\ Len(did.args) = 1) =>
        LET target == did.args[1] IN
        IF IP_REGEX(target)
        THEN did.calls = <<"abuse_ip">> /\ did.diag # "unrecognized"
        ELSE IF HASH_REGEX(target)
        THEN did.calls = <<"mb_lookup">> /\ did.diag # "unrecognized"
        ELSE IF URL_REGEX(target)
        THEN did.calls = <<"url_lookup">> /\ did.diag # "unrecognized"
        ELSE did.calls = <<>> /\ did.diag = "unrecognized"

\* C10 witness: a lookup of an IP address called the IP provider alone.
C10_Witness ==
    /\ did.route = "lookup" /\ Len(did.args) = 1
    /\ IP_REGEX(did.args[1])
    /\ did.calls = <<"abuse_ip">>

\* C10 witness: a lookup of an artifact no pattern matches called no provider.
C10_WitnessUnrecognized ==
    /\ did.route = "lookup" /\ Len(did.args) = 1
    /\ ~IP_REGEX(did.args[1]) /\ ~HASH_REGEX(did.args[1]) /\ ~URL_REGEX(did.args[1])
    /\ did.calls = <<>> /\ did.diag = "unrecognized"

\* C11 (as claimed): dispatching a command that is not a built-in and that
\* the host cannot run (not found, not executable, or exiting non-zero)
\* reports a diagnostic from execute, which returns continue = true with the
\* active case unchanged.
C11_ExternalFailureReported ==
    [][(loop = "Dispatching" /\ did'.route = "external")
            => (/\ ~did'.raised
                /\ did'.diag \in {"stdout", "command_failed", "unknown_command"}
                /\ loop' = "Idle"
                /\ current_case' = current_case /\ cm_case' = cm_case)]_vars

\* What reading is claimed to make of one stored line.
LineFields(line) == split(strip(line), "|")
Ignored(line) == strip(line) = <<>> \/ strip(line)[1] \in {"#", "+"}
Malformed(line) ==
    \/ Len(LineFields(line)) < 2
    \/ strip(LineFields(line)[1]) = <<>>
    \/ strip(LineFields(line)[2]) = <<>>
EntryOf(line) ==
    [ok |-> TRUE, cmd |-> strip(LineFields(line)[1]), ts |-> strip(LineFields(line)[2]),
     case |-> IF Len(LineFields(line)) = 2 THEN <<>> ELSE strip(LineFields(line)[3])]
WellFormedLines(f) == SelectSeq(f, LAMBDA ln : ~Ignored(ln) /\ ~Malformed(ln))

\* C12: an unlimited read of a file holding any mix of lines returns, most
\* recent first, one entry for every well-formed line and nothing else: a
\* two-field line gives an entry with an empty case, blank lines and lines
\* starting with # or + are ignored, a line with fewer than two fields or an
\* empty command or timestamp is skipped, and the well-formed lines before
\* and after it are all returned.
C12_ReadToleratesAnyLines ==
    (rows.read /\ rows.limit = NoneV) =>
        LET kept == WellFormedLines(history_file) IN
        /\ Len(rows.items) = Len(kept)
        /\ \A i \in 1..Len(kept) : rows.items[Len(kept) + 1 - i] = EntryOf(kept[i])

\* C12 witness: a read of a file with a malformed line between a two-field
\* and a three-field record returned both records.
C12_Witness ==
    /\ rows.read /\ rows.limit = NoneV
    /\ Len(history_file) = 3
    /\ ~Ignored(history_file[2]) /\ Malformed(history_file[2])
    /\ Len(rows.items) = 2
    /\ rows.items[2].case = <<>> /\ rows.items[1].case # <<>>

\* C13 (as claimed): when create or add_evidence fails with an I/O error while
\* writing the metadata file, the mutation is abandoned: the directories and
\* metadata files on disk and the active case are the same as before the call.
C13_FailedMutationAbandoned ==
    [][(/\ ncalls' = ncalls + 1
        /\ last'.op \in {"create", "add_evidence"}
        /\ last'.raised)
            => (/\ dirs' = dirs /\ meta' = meta
                /\ cm_case' = cm_case /\ cm_path' = cm_path)]_vars

\* C14 (as claimed): at every point of a rotation, a failed temp-file write
\* or rename included, the history file holds all the entries from before
\* the rotation or exactly the kept most recent N, never a truncated or
\* partially written set.
C14_RotationCrashSafe ==
    (fs.pc # "idle" /\ fs.kind = "hist") => history_file \in {fs.full, fs.after}

ExitWord(ps) == ps # <<>> /\ lower(ps[1]) \in {<<"exit">>, <<"quit">>}

\* C15: the loop goes to Stopped exactly when the prompt ends with interrupt
\* or end-of-input (no line is read) or the line being dispatched has exit
\* or quit as its command; execute returns continue = false only for those;
\* and from Stopped no step is taken: no line is read, recorded or dispatched.
C15_StopsOnExitOrEndOfInput ==
    [][/\ loop # "Stopped"
       /\ loop = "Idle" =>
            ((loop' = "Stopped") <=> (raw' = raw /\ ncalls' = ncalls /\ clock' = clock))
       /\ loop = "Recording" => loop' # "Stopped"
       /\ loop = "Dispatching" => ((loop' = "Stopped") <=> ExitWord(parts))
       /\ (loop = "Dispatching" /\ did'.route = "exit") => ExitWord(parts)]_vars

\* C15 witness: the loop stopped because execute returned continue = false
\* for an exit command.
C15_Witness ==
    /\ loop = "Stopped"
    /\ did.route = "exit" /\ ExitWord(parts)

SubCommands == {<<"create">>, <<"open">>, <<"close">>, <<"list">>, <<"info">>}
UsageError(ps) ==
    /\ ps[1] = <<"case">>
    /\ \/ Len(ps) = 1
       \/ ps[2] \notin SubCommands
       \/ ps[2] \in {<<"create">>, <<"open">>} /\ Len(ps) = 2

\* C19: a case command with no subcommand, with an invalid subcommand, or
\* with create or open and no name raises no exception (the loop goes on to
\* read the next line) and leaves the active case, the case path, the working
\* directory and all stored cases unchanged.
C19_UsageErrorChangesNothing ==
    [][(loop = "Dispatching" /\ UsageError(parts))
            => (/\ loop' = "Idle" /\ ~did'.raised
                /\ dirs' = dirs /\ meta' = meta
                /\ cm_case' = cm_case /\ cm_path' = cm_path
                /\ cwd' = cwd /\ last_case' = last_case)]_vars

\* C19 witness: a case command with an invalid subcommand was dispatched
\* while a case was active.
C19_Witness ==
    /\ did.route = "shell_case" /\ did.args = << <<"frob">> >>
    /\ loop = "Idle"
    /\ Truthy(cm_case)

\* C19 witness: case create with no name was dispatched.
C19_WitnessMissingName ==
    /\ did.route = "shell_case" /\ did.args = << <<"create">> >>
    /\ loop = "Idle"

\* C20 (as claimed): the letter case of the command word makes no difference:
\* the state a dispatch leaves (stored cases, active case, working directory,
\* the shell's current case, where the loop goes) is one that the dispatch of
\* the same line with the command word in lower case can leave.
C20_CommandWordAnyCase ==
    [][loop = "Dispatching" =>
        \E io \in WriteIO, p \in ProviderOutcomes, exists \in BOOLEAN,
           run \in RunOutcomes :
            LET w == dispatch(CS, current_case, <<lower(parts[1])>> \o Tail(parts),
                              Env(clock, clock, io),
                              [p |-> p, exists |-> exists, run |-> run])
            IN  /\ dirs' = w.cs.dirs /\ meta' = w.cs.meta
                /\ cm_case' = w.cs.cur /\ cm_path' = w.cs.path
                /\ cwd' = w.cs.cwd
                /\ current_case' = w.cur
                /\ loop' = w.loop]_vars

\* the step of the case manager's API that has just been taken is op
ApiStep(op) == ncalls' = ncalls + 1 /\ last'.op = op

\* C16: open(name) activates the case exactly when a case.json exists for
\* name: then name is the active case, with its path (and the working
\* directory, when the manager follows cases); when there is none, a
\* directory without case.json included, open returns nothing and the active
\* case, its path, the working directory and the disk are as before.
C16_OpenNeedsMetadata ==
    [][ApiStep("open") =>
         LET name == last'.arg IN
         IF Truthy(name) /\ MetaOf(CS, name.v).kind # "missing"
         THEN /\ ~last'.raised /\ last'.res = name
              /\ cm_case' = name /\ cm_path' = Str(CasePath(name.v))
              /\ cwd' = IF chdir_on_open THEN CasePath(name.v) ELSE cwd
              /\ dirs' = dirs /\ meta' = meta
         ELSE /\ ~last'.raised /\ last'.res = NoneV
              /\ cm_case' = cm_case /\ cm_path' = cm_path
              /\ cwd' = cwd /\ last_case' = last_case
              /\ dirs' = dirs /\ meta' = meta]_vars

\* C16 witness: with a case active, open of a directory that has no
\* case.json returned nothing.
C16_Witness ==
    /\ last.op = "open" /\ last.arg = Str(<<"c2">>)
    /\ <<"c2">> \in dirs /\ meta[<<"c2">>] = Missing
    /\ last.res = NoneV
    /\ cm_case = Str(<<"c1">>)

C18_CreateExistingKeepsMetadata ==
    [][(ApiStep("create") /\ Truthy(last'.arg) /\ last'.arg.v \in dirs) =>
         /\ ~last'.raised /\ last'.res = last'.arg
         /\ cm_case' = last'.arg /\ cm_path' = Str(CasePath(last'.arg.v))
         /\ dirs' = dirs /\ meta' = meta]_vars

\* C18 witness: create of a case that exists with evidence stored activated
\* it, the document still as it was.
C18_Witness ==
    /\ last.op = "create" /\ ~last.fresh /\ ~last.raised
    /\ last.arg = Str(<<"c2">>)
    /\ meta[<<"c2">>] = OldDoc
    /\ cm_case = Str(<<"c2">>)

\* what is stored on disk and which case is active stay as they are
DiskAndActiveCaseKept ==
    /\ dirs' = dirs /\ files' = files /\ meta' = meta
    /\ cm_case' = cm_case /\ cm_path' = cm_path

\* C24: add_evidence with no active case, or with an active case that has no
\* case.json, returns after its message without raising, and no directory
\* or metadata document is made or changed and the active case stays.
C24_AddEvidenceNeedsCase ==
    [][(/\ ApiStep("add_evidence")
        /\ \/ ~Truthy(cm_path)
           \/ MetaOf(CS, cm_case.v).kind = "missing")
            => (~last'.raised /\ DiskAndActiveCaseKept)]_vars

\* C24 witness: add_evidence was called with an active case that has a
\* directory and no case.json.
C24_Witness ==
    /\ last.op = "add_evidence" /\ ~last.raised
    /\ Truthy(cm_case)
    /\ meta[cm_case.v] = Missing

\* C25: info(name) returns the stored document of name as it is, of the
\* active case when no name is given; it returns nothing when there is
\* neither a name nor an active case, or when the case has no case.json; and
\* whatever it does (raising on a case.json that is not JSON included), the
\* disk and the active case stay as they are.
C25_InfoReadsVerbatim ==
    [][ApiStep("info") =>
         /\ DiskAndActiveCaseKept /\ cwd' = cwd /\ last_case' = last_case
         /\ IF ~Truthy(last'.arg) /\ ~Truthy(cm_case)
            THEN ~last'.raised /\ last'.res = NoneV
            ELSE LET name == IF Truthy(last'.arg) THEN last'.arg.v ELSE cm_case.v
                     stored == MetaOf(CS, name)
                 IN  /\ stored.kind = "doc" =>
                            (~last'.raised /\ last'.res = DictV(stored))
                     /\ stored.kind = "missing" =>
                            (~last'.raised /\ last'.res = NoneV)]_vars

\* C25 witness: info without a name returned the document of the active case.
C25_Witness ==
    /\ last.op = "info" /\ ~Truthy(last.arg)
    /\ Truthy(cm_case)
    /\ last.res = DictV(meta[cm_case.v])

\* the place of an entry name in lexicographic order
Rank(n) == CHOOSE i \in 1..Len(SortedEntries) : SortedEntries[i] = n

\* C26: list() returns the names of the directories under the investigations
\* directory, each once, in lexicographic order, those without case.json
\* included and plain files left out, and changes neither the disk nor the
\* active case.
C26_ListIsSortedDirectories ==
    [][ApiStep("list") =>
         /\ DiskAndActiveCaseKept /\ cwd' = cwd /\ last_case' = last_case
         /\ ~last'.raised /\ last'.res.kind = "list"
         /\ LET names == last'.res.v IN
            /\ { names[i] : i \in 1..Len(names) } = dirs
            /\ \A i \in 1..Len(names), j \in 1..Len(names) :
                    i < j => Rank(names[i]) < Rank(names[j])]_vars

\* C26 witness: a listing of two directories, one of them without case.json,
\* next to a plain file.
C26_Witness ==
    /\ last.op = "list"
    /\ last.res = ListV(<< <<"c1">>, <<"c2">> >>)
    /\ meta[<<"c2">>] = Missing
    /\ files # {}

Unmatched(text) == Cardinality({ i \in 1..Len(text) : text[i] = "\"" }) % 2 = 1

\* C27: a line with an unmatched quote is reported as a parse error before
\* dispatch: the loop goes back to the prompt without dispatching, so no
\* handler, case operation, provider or host process runs for it, and the
\* case store and the shell's current_case stay as they are.
C27_UnmatchedQuoteNotDispatched ==
    [][(loop = "Recording" /\ Unmatched(raw)) =>
         /\ loop' = "Idle"
         /\ did'.route = "parse_error"
         /\ current_case' = current_case
         /\ UNCHANGED <<dirs, files, meta, cm_case, cm_path, cwd, last_case>>]_vars

\* C27 witness: a line with an open quote was read while a case was active
\* and the loop is back at the prompt.
C27_Witness ==
    /\ loop = "Idle" /\ Unmatched(raw)
    /\ did.route = "parse_error"
    /\ Truthy(cm_case)

\* C30: after every command the shell's current_case is None or a string
\* equal to the case manager's current_case.
C30_CurrentCaseIsNoneOrActiveName ==
    loop \in {"Idle", "Stopped"} =>
        \/ current_case = NoneV
        \/ current_case.kind = "str" /\ current_case = cm_case

\* a table has been printed, or "No history found."
Displayed == "table" \in DOMAIN rows

\* C29: the lines of the history table are numbered 1, 2, ... with line 1 the
\* most recent well-formed entry of the file, line 2 the one before it, and
\* so on; the table has a Case column exactly when some entry it shows has a
\* non-empty case.
C29_TableNumberedFromMostRecent ==
    (Displayed /\ rows.table.shown) =>
        LET kept == WellFormedLines(history_file)
            table == rows.table
            n == Len(table.lines)
            CaseColumn == \E c \in 1..Len(table.header) : table.header[c] = "Case"
        IN  /\ n \in 1..Len(kept)
            /\ n = Len(parse_history(history_file, rows.limit))
            /\ \A i \in 1..n :
                /\ table.lines[i].num = i
                /\ table.lines[i].cmd = EntryOf(kept[Len(kept) + 1 - i]).cmd
                /\ table.lines[i].ts = EntryOf(kept[Len(kept) + 1 - i]).ts
                /\ CaseColumn =>
                       table.lines[i].case = EntryOf(kept[Len(kept) + 1 - i]).case
            /\ CaseColumn <=>
                   \E i \in 1..n : EntryOf(kept[Len(kept) + 1 - i]).case # <<>>

\* C29 witness: a table of two lines with a Case column, the more recent
\* entry without a case; and the file holds an older entry that is not shown.
C29_Witness ==
    /\ Displayed /\ rows.table.shown
    /\ Len(rows.table.lines) = 2
    /\ rows.table.header = <<"Num", "Command", "Case", "Timestamp">>
    /\ rows.table.lines[1].case = <<>> /\ rows.table.lines[2].case # <<>>
    /\ Len(WellFormedLines(history_file)) = 3

\* the subcommand word an option of `case` stands for
Unalias(ps) ==
    [i \in 1..Len(ps) |->
        IF i # 2 THEN ps[i]
        ELSE CASE ps[2] = <<"-n">> -> <<"create">>
               [] ps[2] = <<"-o">> -> <<"open">>
               [] ps[2] = <<"-c">> -> <<"close">>
               [] OTHER -> ps[2]]

\* C21 (as claimed): in the session `case -n X`, `case -o X` and `case -c`
\* leave the stored cases, the active case and the working directory as
\* `case create X`, `case open X` and `case close` can leave them.
C21_AliasesActLikeWords ==
    [][(/\ loop = "Dispatching"
        /\ parts[1] = <<"case">> /\ Len(parts) >= 2
        /\ parts[2] \in {<<"-n">>, <<"-o">>, <<"-c">>}) =>
        \E io \in WriteIO, p \in ProviderOutcomes, exists \in BOOLEAN,
           run \in RunOutcomes :
            LET w == dispatch(CS, current_case, Unalias(parts),
                              Env(clock, clock, io),
                              [p |-> p, exists |-> exists, run |-> run])
            IN  /\ dirs' = w.cs.dirs /\ meta' = w.cs.meta
                /\ cm_case' = w.cs.cur /\ cm_path' = w.cs.path
                /\ cwd' = w.cs.cwd]_vars

\* a line has been dispatched and what was done with it is on record
Dispatched == "ext" \in DOMAIN did

\* The routing priority with hist the name of the history built-in: the
\* built-in words are handled with no provider call and no host process, and
\* a host process is started exactly for the command names outside the case,
\* built-in and look-up sets.
RoutingPriority(hist) ==
    Dispatched =>
        LET name == lower(did.command)
            builtin == {<<"help">>, <<"clear">>, hist, <<"exit">>, <<"quit">>}
            routed == builtin \cup {<<"case">>, <<"hash">>, <<"ipcheck">>,
                                    <<"urlcheck">>, <<"lookup">>}
        IN  /\ name \in builtin =>
                /\ ~did.ext /\ did.calls = <<>>
                /\ did.route \in {"shell_exit", "shell_clear", "shell_help",
                                  "help", "clear", "exit", hist[1]}
            /\ did.ext <=> name \notin routed

C22_WitnessExternal ==
    /\ Dispatched /\ did.command = <<"frob">> /\ did.ext

\* the argument list fails the rule of the look-up command
BadArguments(name, args) ==
    CASE name = <<"ipcheck">> -> Len(args) # 1 \/ ~IP_REGEX(args[1])
      [] name = <<"urlcheck">> -> Len(args) # 1 \/ ~URL_REGEX(args[1])
      [] name = <<"lookup">> ->
            \/ Len(args) # 1
            \/ ~(IP_REGEX(args[1]) \/ HASH_REGEX(args[1]) \/ URL_REGEX(args[1]))
      [] name = <<"hash">> ->
            \/ args = <<>>
            \/ \E i \in 1..Len(args) :
                /\ args[i] = <<"-h">> /\ \A j \in 1..(i - 1) : args[j] # <<"-h">>
                /\ (i = Len(args) \/ ~HASH_REGEX(args[i + 1]))
      [] OTHER -> FALSE

C23_WitnessProviderCalled ==
    /\ Dispatched /\ did.command = <<"hash">>
    /\ did.calls = <<"mb_lookup">>

\* C31 (as claimed): whenever a case is active, its directory exists and
\* holds a case.json.
C31_ActiveCaseHasMetadata ==
    Truthy(cm_case) =>
        /\ cm_case.v \in dirs
        /\ meta[cm_case.v].kind # "missing"

\* xs is a prefix of ys
IsPrefix(xs, ys) == Len(xs) <= Len(ys) /\ SubSeq(ys, 1, Len(xs)) = xs

\* C33 (as claimed): over every operation of the case manager the stored
\* evidence of every case keeps what it held as a prefix, and it grows, by
\* one entry, only through an add_evidence that returned while that case
\* was active.
C33_EvidenceOnlyGrows ==
    [][ncalls' = ncalls + 1 =>
         \A n \in CaseNames :
            meta[n].kind = "doc" =>
                /\ meta'[n].kind = "doc"
                /\ IsPrefix(meta[n].evidence, meta'[n].evidence)
                /\ meta'[n].evidence # meta[n].evidence =>
                       /\ Len(meta'[n].evidence) = Len(meta[n].evidence) + 1
                       /\ last'.op = "add_evidence" /\ ~last'.raised
                       /\ cm_case = Str(n)]_vars

\* C34: an add_evidence that wrote the document of the active case leaves
\* its name, created, examiner and notes as they were and changes evidence
\* (one entry more) and updated only; the documents of the other cases, the
\* directories and the active case are unchanged.
C34_AddEvidenceTouchesTwoFields ==
    [][(/\ ApiStep("add_evidence") /\ ~last'.raised
        /\ Truthy(cm_case) /\ meta[cm_case.v].kind = "doc") =>
         LET old == meta[cm_case.v]
             new == meta'[cm_case.v]
         IN  /\ new.kind = "doc"
             /\ new.name = old.name /\ new.created = old.created
             /\ new.examiner = old.examiner /\ new.notes = old.notes
             /\ Len(new.evidence) = Len(old.evidence) + 1
             /\ IsPrefix(old.evidence, new.evidence)
             /\ \A n \in CaseNames \ {cm_case.v} : meta'[n] = meta[n]
             /\ dirs' = dirs /\ files' = files
             /\ cm_case' = cm_case /\ cm_path' = cm_path /\ cwd' = cwd]_vars

\* C34 witness: add_evidence returned on a case that was made before the
\* session by another examiner and now holds two entries, while another
\* case has a document of its own.
C34_Witness ==
    /\ last.op = "add_evidence" /\ ~last.raised
    /\ cm_case = Str(<<"c2">>) /\ meta[<<"c2">>].kind = "doc"
    /\ meta[<<"c2">>].examiner = "bob"
    /\ Len(meta[<<"c2">>].evidence) = 2
    /\ meta[<<"c1">>].kind = "doc"

\* C35 (as claimed): a read with limit k >= 0 returns the min(k, n) most
\* recent of the n entries the file holds, most recent first; a read with no
\* limit returns all n.
C35_LimitedReadReturnsMostRecent ==
    rows.read =>
        LET kept == WellFormedLines(history_file)
            n == Len(kept)
            m == IF rows.limit = NoneV THEN n ELSE Min(rows.limit.v, n)
        IN  /\ Len(rows.items) = m
            /\ \A i \in 1..m : rows.items[i] = EntryOf(kept[n + 1 - i])

\* C32 (as claimed): with the line editor's "# <time>" and "+<line>" lines in
\* the same file, an unlimited read returns min(number of successful appends,
\* max_entries) entries.
C32_MarkerLinesCostNoEntry ==
    Len(parse_history(history_file, NoneV)) = Min(Len(appended), max_entries)

====
